---- MODULE Spec2Model ----
(***************************************************************************)
(* A model of oxine: the session registry (lib/src/server.rs) and the wire *)
(* codec (lib/src/networking.rs).  Bytes are 0..255, texts are sequences   *)
(* of Unicode code points, streams are sequences of bytes.                 *)
(***************************************************************************)
EXTENDS Integers, Sequences, FiniteSets, TLC

VARIABLES
    worlds,             \* Server::worlds: world name -> occupied player slots
    players_connected,  \* Server::players_connected: username -> <<world, id>>
    last_salts,         \* Server::last_salts
    config,             \* Server::config (the fields the registry reads)
    calls,              \* remove_player calls made by the last operation
    last,               \* the last registry operation and the state it ran in
    stream,             \* the byte stream a store writes to and a load reads
    rpos,               \* bytes of the stream consumed by loads so far
    wlimit,             \* how many bytes the destination accepts in all
    input,              \* the value handed to store
    result,             \* what the last load or store returned
    issued,             \* every salt issued so far, oldest first
    conn,               \* the connections: state, username, outgoing stream
    proc                \* the server process: startup position, listener, heartbeat

regVars == <<worlds, players_connected, last_salts, config, calls, last>>
ioVars  == <<stream, rpos, wlimit, input, result>>
vars    == <<worlds, players_connected, last_salts, config, calls, last,
             stream, rpos, wlimit, input, result, issued, conn, proc>>

---------------------------------------------------------------------------
(* Bounds of the model. *)

\* Longest free tail of an enumerated text.
MaxTail == 2
\* Largest player id enumerated (ids are i8; -1 is always included).
MaxId == 1
\* How many bytes may be cut off the end of an enumerated incoming stream.
MaxCut == 2
\* Largest kept_salts enumerated.
MaxKept == 2
\* How many salts are issued at most.
MaxIssues == 5
\* How many connections are accepted at most.
MaxConns == 2
\* How many packets are stored on the connection at most.
MaxStores == 3
\* Largest heartbeat_retries enumerated.
MaxRetries == 1
\* How many heartbeat intervals elapse at most.
MaxBeats == 2

---------------------------------------------------------------------------
(* Program constants. *)

\* [0; 64] / [b' '; 64]: the width of a text field
FieldLen == 64
\* [0; 1024]: the width of a raw block
ChunkLen == 1024
\* b' '
PadByte == 32

Byte == 0..255

Max(S) == CHOOSE m \in S : \A x \in S : x <= m
Min2(a, b) == IF a <= b THEN a ELSE b
Rep(n, b) == [i \in 1..n |-> b]

---------------------------------------------------------------------------
(* io::Result and the ? operator. *)

\* Ok(val) of a load that left the read position at pos
Ok(val, pos) == [ok |-> TRUE, val |-> val, pos |-> pos, err |-> "none"]
\* Err(kind) of a load that left the read position at pos
Err(kind, pos) == [ok |-> FALSE, val |-> "none", pos |-> pos, err |-> kind]

\* expr? followed by rest: an error returns at once
Q(r, rest) == IF r.ok THEN rest ELSE r

---------------------------------------------------------------------------
(* The stream: AsyncReadExt::read_exact and AsyncWriteExt::write_all. *)

\* Mutant: a short read returns what was left, filled up with zeros.
read_exact_lenient(s, p, n) ==
    IF p + n <= Len(s)
    THEN Ok(SubSeq(s, p + 1, p + n), p + n)
    ELSE Ok(SubSeq(s, p + 1, Len(s)) \o Rep(p + n - Len(s), 0), Len(s))

\* read_exact of n bytes at position p: the bytes, or UnexpectedEof with
\* everything that was left consumed.
read_exact(s, p, n) ==
    IF p + n <= Len(s)
    THEN Ok(SubSeq(s, p + 1, p + n), p + n)
    ELSE Err("UnexpectedEof", Len(s))

\* A destination holding out that accepts lim.n bytes in all when lim.on.
Writer(out, lim) == [ok |-> TRUE, out |-> out, lim |-> lim, err |-> "none"]

\* write_all: every byte is written, or as many as the destination takes
\* and the write error is returned.
write_all(w, bytes) ==
    LET room == IF w.lim.on THEN w.lim.n - Len(w.out) ELSE Len(bytes) IN
    IF Len(bytes) <= room
    THEN [w EXCEPT !.out = w.out \o bytes]
    ELSE [w EXCEPT !.ok = FALSE, !.err = "BrokenPipe",
                   !.out = w.out \o SubSeq(bytes, 1, IF room > 0 THEN room ELSE 0)]

\* Mutant: the error takes back what the store had written.
fail_discarding(w, kind) == [w EXCEPT !.ok = FALSE, !.err = kind, !.out = <<>>]

\* return Err(io::Error::from(kind)) before anything is written
fail(w, kind) == [w EXCEPT !.ok = FALSE, !.err = kind]

---------------------------------------------------------------------------
(* codepage_437::CP437_WINGDINGS: byte -> code point.  0x20..0x7e are      *)
(* ASCII; 0x00..0x1f and 0x7f are the graphic glyphs; 0xff is U+00A0.      *)

Cp437Low ==
    << 0, 9786, 9787, 9829, 9830, 9827, 9824, 8226, 9688, 9675, 9689, 9794, 9792, 9834, 9835, 9788,
       9658, 9668, 8597, 8252, 182, 167, 9644, 8616, 8593, 8595, 8594, 8592, 8735, 8596, 9650, 9660 >>

Cp437High ==
    << 199, 252, 233, 226, 228, 224, 229, 231, 234, 235, 232, 239, 238, 236, 196, 197,
       201, 230, 198, 244, 246, 242, 251, 249, 255, 214, 220, 162, 163, 165, 8359, 402,
       225, 237, 243, 250, 241, 209, 170, 186, 191, 8976, 172, 189, 188, 161, 171, 187,
       9617, 9618, 9619, 9474, 9508, 9569, 9570, 9558, 9557, 9571, 9553, 9559, 9565, 9564, 9563, 9488,
       9492, 9524, 9516, 9500, 9472, 9532, 9566, 9567, 9562, 9556, 9577, 9574, 9568, 9552, 9580, 9575,
       9576, 9572, 9573, 9561, 9560, 9554, 9555, 9579, 9578, 9496, 9484, 9608, 9604, 9612, 9616, 9600,
       945, 223, 915, 960, 931, 963, 181, 964, 934, 920, 937, 948, 8734, 966, 949, 8745,
       8801, 177, 8805, 8804, 8992, 8993, 247, 8776, 176, 8729, 183, 8730, 8319, 178, 9632, 160 >>

\* Dialect::decode
cp437_decode(b) ==
    IF b < 32 THEN Cp437Low[b + 1]
    ELSE IF b < 127 THEN b
    ELSE IF b = 127 THEN 8962
    ELSE Cp437High[b - 127]

\* Dialect::encode: the byte of a code point, or -1 when it has none
cp437_encode(c) ==
    IF c \in 32..126 THEN c
    ELSE IF \E b \in Byte : cp437_decode(b) = c
         THEN CHOOSE b \in Byte : cp437_decode(b) = c
         ELSE -1

\* char::is_whitespace: the Unicode White_Space property
is_whitespace(c) ==
    c \in (9..13) \cup {32, 133, 160, 5760} \cup (8192..8202)
          \cup {8232, 8233, 8239, 8287, 12288}

\* str::trim_end
trim_end(t) ==
    LET keep == {i \in 1..Len(t) : ~is_whitespace(t[i])} IN
    IF keep = {} THEN <<>> ELSE SubSeq(t, 1, Max(keep))

\* String::borrow_from_cp437: infallible, byte by byte
borrow_from_cp437(buf) == [i \in 1..Len(buf) |-> cp437_decode(buf[i])]

\* str::to_cp437: Ok(bytes) when every character has a byte, else Err
to_cp437(t) ==
    LET bytes == [i \in 1..Len(t) |-> cp437_encode(t[i])] IN
    IF \A i \in 1..Len(t) : bytes[i] >= 0
    THEN [ok |-> TRUE, bytes |-> bytes]
    ELSE [ok |-> FALSE, bytes |-> <<>>]

---------------------------------------------------------------------------
(* Primitive codec. *)

\* <u8 as IncomingPacketType>::load
u8_load(s, p) ==
    LET r == read_exact(s, p, 1) IN
    Q(r, Ok(r.val[1], r.pos))

\* <u8 as OutgoingPacketType>::store
u8_store(w, v) == write_all(w, <<v>>)

\* buf[0] as i8
as_i8(b) == IF b >= 128 THEN b - 256 ELSE b

\* *self as u8
as_u8(v) == (v + 256) % 256

\* <i8 as IncomingPacketType>::load
i8_load(s, p) ==
    LET r == read_exact(s, p, 1) IN
    Q(r, Ok(as_i8(r.val[1]), r.pos))

\* <i8 as OutgoingPacketType>::store
i8_store(w, v) == write_all(w, <<as_u8(v)>>)

\* u16::from_be_bytes
u16_from_be_bytes(buf) == buf[1] * 256 + buf[2]

\* u16::to_be_bytes
u16_to_be_bytes(v) == <<v \div 256, v % 256>>

\* <u16 as IncomingPacketType>::load
u16_load(s, p) ==
    LET r == read_exact(s, p, 2) IN
    Q(r, Ok(u16_from_be_bytes(r.val), r.pos))

\* <u16 as OutgoingPacketType>::store
u16_store(w, v) == write_all(w, u16_to_be_bytes(v))

\* <String as IncomingPacketType>::load
String_load(s, p) ==
    LET r == read_exact(s, p, FieldLen) IN
    Q(r, Ok(trim_end(borrow_from_cp437(r.val)), r.pos))

\* Mutant: a converted text longer than the field is rejected.
String_store_rejecting(w, t) ==
    LET slice == to_cp437(t)
        buf == [i \in 1..FieldLen |->
                   IF i <= Len(slice.bytes) THEN slice.bytes[i] ELSE PadByte]
    IN  IF ~slice.ok \/ Len(slice.bytes) > FieldLen
        THEN fail(w, "InvalidData") ELSE write_all(w, buf)

\* Mutant: the field is written as far as the text converts, then the
\* error is returned.
String_store_late_error(w, t) ==
    LET bytes == [i \in 1..Len(t) |-> cp437_encode(t[i])]
        bad == {i \in 1..Len(t) : bytes[i] < 0}
        good == IF bad = {} THEN Len(t) ELSE Max({0} \cup {i \in 1..Len(t) : \A j \in 1..i : j \notin bad})
        trunc_len == Min2(good, FieldLen)
        buf == [i \in 1..FieldLen |-> IF i <= trunc_len THEN bytes[i] ELSE PadByte]
        w1 == write_all(w, buf)
    IN  IF bad = {} THEN w1 ELSE Q(w1, fail(w1, "InvalidData"))

\* <String as OutgoingPacketType>::store
String_store(w, t) ==
    LET slice == to_cp437(t)
        trunc_len == Min2(Len(slice.bytes), FieldLen)
        buf == [i \in 1..FieldLen |->
                   IF i <= trunc_len THEN slice.bytes[i] ELSE PadByte]
    IN  IF ~slice.ok THEN fail(w, "InvalidData") ELSE write_all(w, buf)

\* x8::from_bits: the fixed-point value whose raw bits are b
x8_from_bits(b) == [bits |-> b]

\* x8::to_bits
x8_to_bits(v) == v.bits

\* <x8 as IncomingPacketType>::load
x8_load(s, p) ==
    LET r == read_exact(s, p, 1) IN
    Q(r, Ok(x8_from_bits(as_i8(r.val[1])), r.pos))

\* <x8 as OutgoingPacketType>::store
x8_store(w, v) == write_all(w, <<as_u8(x8_to_bits(v))>>)

\* x16::from_be_bytes: the raw i16 read big-endian, two's complement
x16_from_be_bytes(buf) ==
    LET u == buf[1] * 256 + buf[2] IN
    [bits |-> IF u >= 32768 THEN u - 65536 ELSE u]

\* Mutant: the two bytes are written low byte first.
x16_to_le_bytes(v) ==
    LET u == (v.bits + 65536) % 65536 IN <<u % 256, u \div 256>>

\* x16::to_be_bytes
x16_to_be_bytes(v) ==
    LET u == (v.bits + 65536) % 65536 IN <<u \div 256, u % 256>>

\* <x16 as IncomingPacketType>::load
x16_load(s, p) ==
    LET r == read_exact(s, p, 2) IN
    Q(r, Ok(x16_from_be_bytes(r.val), r.pos))

\* <x16 as OutgoingPacketType>::store
x16_store(w, v) == write_all(w, x16_to_be_bytes(v))

\* <Vector3<u16> as IncomingPacketType>::load
Vector3_u16_load(s, p) ==
    LET x == u16_load(s, p)
        y == u16_load(s, x.pos)
        z == u16_load(s, y.pos)
    IN  Q(x, Q(y, Q(z, Ok([x |-> x.val, y |-> y.val, z |-> z.val], z.pos))))

\* <Vector3<x16> as IncomingPacketType>::load
Vector3_x16_load(s, p) ==
    LET x == x16_load(s, p)
        y == x16_load(s, x.pos)
        z == x16_load(s, y.pos)
    IN  Q(x, Q(y, Q(z, Ok([x |-> x.val, y |-> y.val, z |-> z.val], z.pos))))

\* <Vector3<u16> as OutgoingPacketType>::store
Vector3_u16_store(w, v) ==
    LET w1 == u16_store(w, v.x)
        w2 == Q(w1, u16_store(w1, v.y))
    IN  Q(w2, u16_store(w2, v.z))

\* <Vector3<x16> as OutgoingPacketType>::store
Vector3_x16_store(w, v) ==
    LET w1 == x16_store(w, v.x)
        w2 == Q(w1, x16_store(w1, v.y))
    IN  Q(w2, x16_store(w2, v.z))

\* <Vector3<x8> as OutgoingPacketType>::store
Vector3_x8_store(w, v) ==
    LET w1 == x8_store(w, v.x)
        w2 == Q(w1, x8_store(w1, v.y))
    IN  Q(w2, x8_store(w2, v.z))

\* <Location as IncomingPacketType>::load
Location_load(s, p) ==
    LET position == Vector3_x16_load(s, p)
        yaw == u8_load(s, position.pos)
        pitch == u8_load(s, yaw.pos)
    IN  Q(position, Q(yaw, Q(pitch,
          Ok([position |-> position.val, yaw |-> yaw.val, pitch |-> pitch.val],
             pitch.pos))))

\* <Location as OutgoingPacketType>::store
Location_store(w, v) ==
    LET w1 == Vector3_x16_store(w, v.position)
        w2 == Q(w1, u8_store(w1, v.yaw))
    IN  Q(w2, u8_store(w2, v.pitch))

\* <[u8; 1024] as IncomingPacketType>::load
Chunk_load(s, p) == read_exact(s, p, ChunkLen)

\* <[u8; 1024] as OutgoingPacketType>::store
Chunk_store(w, v) == write_all(w, v)

---------------------------------------------------------------------------
(* Packet codec. *)

\* Mutant: the padding byte after the key is not read.
load_PlayerIdentification_no_pad(s, p) ==
    LET version == u8_load(s, p)
        username == String_load(s, version.pos)
        key == String_load(s, username.pos)
    IN  Q(version, Q(username, Q(key,
          Ok([type |-> "PlayerIdentification", version |-> version.val,
              username |-> username.val, key |-> key.val], key.pos))))

\* Incoming::load, the 0x00 arm
load_PlayerIdentification(s, p) ==
    LET version == u8_load(s, p)
        username == String_load(s, version.pos)
        key == String_load(s, username.pos)
        pad == u8_load(s, key.pos)
    IN  Q(version, Q(username, Q(key, Q(pad,
          Ok([type |-> "PlayerIdentification", version |-> version.val,
              username |-> username.val, key |-> key.val], pad.pos)))))

\* Mutant: only mode 1 places a block.
load_SetBlock_mode_one(s, p) ==
    LET position == Vector3_u16_load(s, p)
        mode == u8_load(s, position.pos)
        id == u8_load(s, mode.pos)
    IN  Q(position, Q(mode, Q(id,
          Ok([type |-> "SetBlock", position |-> position.val,
              state |-> IF mode.val = 1 THEN id.val ELSE 0], id.pos))))

\* Incoming::load, the 0x05 arm
load_SetBlock(s, p) ==
    LET position == Vector3_u16_load(s, p)
        mode == u8_load(s, position.pos)
        id == u8_load(s, mode.pos)
    IN  Q(position, Q(mode, Q(id,
          Ok([type |-> "SetBlock", position |-> position.val,
              state |-> IF mode.val # 0 THEN id.val ELSE 0], id.pos))))

\* Incoming::load, the 0x08 arm
load_SetLocation(s, p) ==
    LET pad == u8_load(s, p)
        location == Location_load(s, pad.pos)
    IN  Q(pad, Q(location,
          Ok([type |-> "SetLocation", location |-> location.val], location.pos)))

\* Incoming::load, the 0x0d arm
load_Message(s, p) ==
    LET pad == u8_load(s, p)
        message == String_load(s, pad.pos)
    IN  Q(pad, Q(message,
          Ok([type |-> "Message", message |-> message.val], message.pos)))

\* Mutant: an unknown discriminant also swallows the byte after it.
Incoming_load_skipping(s, p) ==
    LET discriminant == u8_load(s, p) IN
    Q(discriminant,
      CASE discriminant.val = 0  -> load_PlayerIdentification(s, discriminant.pos)
        [] discriminant.val = 5  -> load_SetBlock(s, discriminant.pos)
        [] discriminant.val = 8  -> load_SetLocation(s, discriminant.pos)
        [] discriminant.val = 13 -> load_Message(s, discriminant.pos)
        [] OTHER -> Err("InvalidData", Min2(discriminant.pos + 1, Len(s))))

\* <Incoming as IncomingPacketType>::load
Incoming_load(s, p) ==
    LET discriminant == u8_load(s, p) IN
    Q(discriminant,
      CASE discriminant.val = 0  -> load_PlayerIdentification(s, discriminant.pos)
        [] discriminant.val = 5  -> load_SetBlock(s, discriminant.pos)
        [] discriminant.val = 8  -> load_SetLocation(s, discriminant.pos)
        [] discriminant.val = 13 -> load_Message(s, discriminant.pos)
        [] OTHER -> Err("InvalidData", discriminant.pos))

\* Mutant: the flag is written as 1 and 0.
operator_flag_bool(operator) == IF operator THEN 1 ELSE 0

\* if *operator { 0x64 } else { 0x00 }
operator_flag(operator) == IF operator THEN 100 ELSE 0

\* <Outgoing as OutgoingPacketType>::store
Outgoing_store(w, pkt) ==
    CASE pkt.type = "ServerIdentification" ->
           LET w1 == u8_store(w, 0)
               w2 == Q(w1, u8_store(w1, pkt.version))
               w3 == Q(w2, String_store(w2, pkt.name))
               w4 == Q(w3, String_store(w3, pkt.motd))
           IN  Q(w4, u8_store(w4, operator_flag(pkt.operator)))
      [] pkt.type = "Ping" -> u8_store(w, 1)
      [] pkt.type = "LevelInit" -> u8_store(w, 2)
      [] pkt.type = "LevelDataChunk" ->
           LET w1 == u8_store(w, 3)
               w2 == Q(w1, u16_store(w1, pkt.data_length))
               w3 == Q(w2, Chunk_store(w2, pkt.data_chunk))
           IN  Q(w3, u8_store(w3, pkt.percent_complete))
      [] pkt.type = "LevelFinalize" ->
           LET w1 == u8_store(w, 4)
           IN  Q(w1, Vector3_u16_store(w1, pkt.size))
      [] pkt.type = "SetBlock" ->
           LET w1 == u8_store(w, 6)
               w2 == Q(w1, Vector3_u16_store(w1, pkt.position))
           IN  Q(w2, u8_store(w2, pkt.block))
      [] pkt.type = "SpawnPlayer" ->
           LET w1 == u8_store(w, 7)
               w2 == Q(w1, i8_store(w1, pkt.id))
               w3 == Q(w2, String_store(w2, pkt.name))
           IN  Q(w3, Location_store(w3, pkt.location))
      [] pkt.type = "TeleportPlayer" ->
           LET w1 == u8_store(w, 8)
               w2 == Q(w1, i8_store(w1, pkt.id))
           IN  Q(w2, Location_store(w2, pkt.location))
      [] pkt.type = "UpdatePlayerLocation" ->
           LET w1 == u8_store(w, 9)
               w2 == Q(w1, i8_store(w1, pkt.id))
               w3 == Q(w2, Vector3_x8_store(w2, pkt.position_change))
               w4 == Q(w3, u8_store(w3, pkt.yaw))
           IN  Q(w4, u8_store(w4, pkt.pitch))
      [] pkt.type = "UpdatePlayerPosition" ->
           LET w1 == u8_store(w, 10)
               w2 == Q(w1, i8_store(w1, pkt.id))
           IN  Q(w2, Vector3_x8_store(w2, pkt.position_change))
      [] pkt.type = "UpdatePlayerRotation" ->
           LET w1 == u8_store(w, 11)
               w2 == Q(w1, i8_store(w1, pkt.id))
               w3 == Q(w2, u8_store(w2, pkt.yaw))
           IN  Q(w3, u8_store(w3, pkt.pitch))
      [] pkt.type = "DespawnPlayer" ->
           LET w1 == u8_store(w, 12)
           IN  Q(w1, i8_store(w1, pkt.id))
      [] pkt.type = "Message" ->
           LET w1 == u8_store(w, 13)
               w2 == Q(w1, i8_store(w1, pkt.id))
           IN  Q(w2, String_store(w2, pkt.message))
      [] pkt.type = "Disconnect" ->
           LET w1 == u8_store(w, 14)
           IN  Q(w1, String_store(w1, pkt.reason))
      [] pkt.type = "UpdateUser" ->
           LET w1 == u8_store(w, 15)
           IN  Q(w1, u8_store(w1, operator_flag(pkt.operator)))

---------------------------------------------------------------------------
(* Session registry. *)

\* World::remove_player: frees the player's slot
remove_player(slots, id) == slots \ {id}

\* Mutant: the entry is read and left in the map.
hashmap_remove_keeping(m, k) ==
    [map |-> m,
     taken |-> IF k \in DOMAIN m THEN <<m[k]>> ELSE <<>>]

\* HashMap::remove: the map without the key, and the value it held (Option)
hashmap_remove(m, k) ==
    [map |-> [x \in DOMAIN m \ {k} |-> m[x]],
     taken |-> IF k \in DOMAIN m THEN <<m[k]>> ELSE <<>>]

\* Mutant: the entry is dropped and no world is looked up.
disconnect_target_never(taken, wtable) == <<>>

\* Mutant: a missing entry falls back to slot 0 of the default world.
disconnect_target_or_default(taken, wtable) ==
    IF taken # <<>>
    THEN (IF taken[1][1] \in DOMAIN wtable THEN taken ELSE <<>>)
    ELSE (IF "default" \in DOMAIN wtable THEN << <<"default", 0>> >> ELSE <<>>)

\* world.and_then(|(world, id)| self.worlds.get_mut(&world).map(|w| (w, id))):
\* the world to tell and the id, when the entry existed and names a world
\* of the table (Option)
disconnect_target(taken, wtable) ==
    IF taken # <<>> /\ taken[1][1] \in DOMAIN wtable THEN taken ELSE <<>>

\* Server::disconnect
disconnect(username) ==
    LET removed == hashmap_remove(players_connected, username)
        target == disconnect_target(removed.taken, worlds)
    IN  /\ players_connected' = removed.map
        /\ worlds' = IF target # <<>>
                     THEN [worlds EXCEPT ![target[1][1]] = remove_player(@, target[1][2])]
                     ELSE worlds
        /\ calls' = target
        /\ last' = [op |-> "disconnect", username |-> username,
                    again |-> (last.op = "disconnect" /\ last.username = username),
                    players_connected |-> players_connected, worlds |-> worlds,
                    last_salts |-> last_salts, config |-> config]
        /\ UNCHANGED <<last_salts, config, issued, proc>>
        /\ UNCHANGED ioVars

---------------------------------------------------------------------------
(* The registry states and the values the operations are run on. *)

Usernames == {"Alice", "Bob"}
WorldNames == {"default", "other"}
Salts == {"s1", "s2"}
PlayerIds == (-1)..MaxId

SeqsUpTo(S, n) == UNION {[1..k -> S] : k \in 0..n}

NoOp ==
    [op |-> "none", username |-> "none", again |-> FALSE,
     players_connected |-> <<>>,
     worlds |-> <<>>, last_salts |-> <<>>, config |-> <<>>]

NoInput == [kind |-> "none", v |-> "none"]
NoResult == [op |-> "none", ok |-> TRUE, err |-> "none", val |-> "none", start |-> 0]
Unlimited == [on |-> FALSE, n |-> 0]
Limit(n) == [on |-> TRUE, n |-> n]

\* No stream in use.
IoIdle ==
    /\ stream = <<>>
    /\ rpos = 0
    /\ wlimit = Unlimited
    /\ input = NoInput
    /\ result = NoResult

\* An empty registry that nothing acts on.
RegIdle ==
    /\ worlds = <<>>
    /\ players_connected = <<>>
    /\ last_salts = <<>>
    /\ config = [kept_salts |-> 0, default_world |-> "default"]
    /\ calls = <<>>
    /\ last = NoOp
    /\ issued = <<>>

\* No connection.
ConnIdle == conn = <<>>
\* No server process.
ProcIdle == proc = <<>>

\* Server is a plain struct with public fields, built by a struct literal:
\* any index, any world table (an entry may name a world the table lacks).
Init ==
    /\ \E D \in SUBSET Usernames :
         players_connected \in [D -> WorldNames \X PlayerIds]
    /\ \E D \in SUBSET WorldNames, extra \in {{}, {0}} :
         worlds = [w \in D |->
                     {players_connected[u][2] :
                        u \in {x \in DOMAIN players_connected :
                                 players_connected[x][1] = w}} \cup extra]
    /\ \E k \in 0..MaxKept :
         /\ config = [kept_salts |-> k, default_world |-> "default"]
         /\ last_salts \in SeqsUpTo(Salts, k)
    /\ calls = <<>>
    /\ last = NoOp
    /\ issued = <<>>
    /\ IoIdle
    /\ ConnIdle
    /\ ProcIdle

Next == \E username \in Usernames : disconnect(username) /\ UNCHANGED conn

Spec == Init /\ [][Next]_vars

---------------------------------------------------------------------------
(* Claims about the session registry (specification Spec). *)

\* The last operation was disconnect(u) and u had an index entry.
DisconnectedPresent ==
    last.op = "disconnect" /\ last.username \in DOMAIN last.players_connected

\* The last operation was disconnect(u) and u had no index entry.
DisconnectedAbsent ==
    last.op = "disconnect" /\ last.username \notin DOMAIN last.players_connected

\* The index the last disconnect ran on, without the disconnected username.
IndexWithoutUser ==
    [u \in DOMAIN last.players_connected \ {last.username} |->
        last.players_connected[u]]

\* C1 as stated: disconnect of a username with an entry (world, id) removes
\* the entry and calls remove_player(id) on that world exactly once, in
\* every registry state.
C1_AlwaysForwards ==
    DisconnectedPresent =>
        /\ players_connected = IndexWithoutUser
        /\ calls = <<last.players_connected[last.username]>>

\* C1 as amended: disconnect of a username with an entry (world, id) removes
\* exactly that entry; when the world is in the world table, remove_player(id)
\* is called on it exactly once and frees the slot; when the table has no
\* such world, the entry is removed all the same and no world is called.
C1_ForwardsWhenWorldExists ==
    DisconnectedPresent =>
        LET e == last.players_connected[last.username] IN
        /\ players_connected = IndexWithoutUser
        /\ IF e[1] \in DOMAIN last.worlds
           THEN /\ calls = <<e>>
                /\ worlds = [last.worlds EXCEPT ![e[1]] = @ \ {e[2]}]
           ELSE /\ calls = <<>>
                /\ worlds = last.worlds

\* A disconnect removed an entry, told its world, and another entry stays.
C1_Witness ==
    /\ DisconnectedPresent
    /\ calls = <<last.players_connected[last.username]>>
    /\ players_connected # <<>>

\* C2: disconnect of a username without an index entry changes nothing of
\* the registry (index, world table, salt history, config) and calls
\* remove_player on no world; so does a second disconnect of a username.
C2_AbsentIsNoOp ==
    DisconnectedAbsent =>
        /\ players_connected = last.players_connected
        /\ worlds = last.worlds
        /\ last_salts = last.last_salts
        /\ config = last.config
        /\ calls = <<>>

\* The same username was disconnected twice in a row, in a registry that
\* still holds a player, worlds and a salt.
C2_Witness ==
    /\ DisconnectedAbsent
    /\ last.again
    /\ players_connected # <<>>
    /\ worlds # <<>>
    /\ last_salts # <<>>

---------------------------------------------------------------------------
(* Running the codec: one action per load or store call. *)

\* A store call on the stream: what it wrote stays written, also on error.
StoreStep(name, w) ==
    /\ stream' = w.out
    /\ result' = [op |-> name, ok |-> w.ok, err |-> w.err, val |-> "none",
                  start |-> Len(stream)]
    /\ UNCHANGED <<rpos, wlimit, input>>
    /\ UNCHANGED <<regVars, issued, conn, proc>>

\* A load call on the stream, from the read position.
LoadStep(name, r) ==
    /\ rpos' = r.pos
    /\ result' = [op |-> name, ok |-> r.ok, err |-> r.err, val |-> r.val,
                  start |-> rpos]
    /\ UNCHANGED <<stream, wlimit, input>>
    /\ UNCHANGED <<regVars, issued, conn, proc>>

(* Text fields: a text is stored once, and a field is loaded back. *)

\* 'A', ' ', U+00A0, NUL, e-acute; the euro sign and '\n' have no byte.
Alphabet == {65, 32, 160, 0, 233, 8364, 10}

PrefixLens == {0} \cup ((FieldLen - 2)..(FieldLen + 1))

\* A run of 'x' followed by a free tail: lengths 0..FieldLen + 1 + MaxTail.
Texts == {Rep(k, 120) \o t : k \in PrefixLens, t \in SeqsUpTo(Alphabet, MaxTail)}

String_store_step ==
    /\ input.kind = "String"
    /\ result.op = "none"
    /\ StoreStep("String::store", String_store(Writer(stream, wlimit), input.v))

String_load_step ==
    /\ input.kind = "String"
    /\ result.op \in {"none", "String::store"}
    /\ LoadStep("String::load", String_load(stream, rpos))

InitText ==
    /\ RegIdle
    /\ ConnIdle
    /\ ProcIdle
    /\ stream = <<>>
    /\ rpos = 0
    /\ wlimit \in {Unlimited, Limit(10)}
    /\ input \in {[kind |-> "String", v |-> t] : t \in Texts}
    /\ result = NoResult

NextText == String_store_step \/ String_load_step

SpecText == InitText /\ [][NextText]_vars

(* Scaled integers: every x8 and every x16 is stored and loaded back. *)

x8_store_step ==
    /\ input.kind = "x8"
    /\ result.op = "none"
    /\ StoreStep("x8::store", x8_store(Writer(stream, wlimit), input.v))

x8_load_step ==
    /\ input.kind = "x8"
    /\ result.op \in {"none", "x8::store"}
    /\ LoadStep("x8::load", x8_load(stream, rpos))

x16_store_step ==
    /\ input.kind = "x16"
    /\ result.op = "none"
    /\ StoreStep("x16::store", x16_store(Writer(stream, wlimit), input.v))

x16_load_step ==
    /\ input.kind = "x16"
    /\ result.op \in {"none", "x16::store"}
    /\ LoadStep("x16::load", x16_load(stream, rpos))

InitFixed ==
    /\ RegIdle
    /\ ConnIdle
    /\ ProcIdle
    /\ stream = <<>>
    /\ rpos = 0
    /\ wlimit \in {Unlimited, Limit(1)}
    /\ input \in {[kind |-> "x8", v |-> x8_from_bits(b)] : b \in (-128)..127}
            \cup {[kind |-> "x16", v |-> [bits |-> b]] : b \in (-32768)..32767}
    /\ result = NoResult

NextFixed == x8_store_step \/ x8_load_step \/ x16_store_step \/ x16_load_step

SpecFixed == InitFixed /\ [][NextFixed]_vars

(* Outgoing packets: one packet is stored. *)

\* "", "Alice", 65 characters, and a text with a euro sign.
SampleTexts ==
    {<<>>, <<65, 108, 105, 99, 101>>, Rep(FieldLen + 1, 120), <<72, 105, 8364>>}

SampleVec16 ==
    {[x |-> 0, y |-> 0, z |-> 0], [x |-> 256, y |-> 64, z |-> 1],
     [x |-> 65535, y |-> 1, z |-> 258]}

SampleVecX16 ==
    {[x |-> [bits |-> 0], y |-> [bits |-> 0], z |-> [bits |-> 0]],
     [x |-> [bits |-> -1], y |-> [bits |-> -32768], z |-> [bits |-> 32767]],
     [x |-> [bits |-> 32], y |-> [bits |-> 4096], z |-> [bits |-> -288]]}

SampleVecX8 ==
    {[x |-> [bits |-> 0], y |-> [bits |-> 0], z |-> [bits |-> 0]],
     [x |-> [bits |-> -1], y |-> [bits |-> -128], z |-> [bits |-> 127]],
     [x |-> [bits |-> 32], y |-> [bits |-> 1], z |-> [bits |-> -32]]}

SampleLocations ==
    {[position |-> v, yaw |-> a[1], pitch |-> a[2]] :
        v \in SampleVecX16, a \in {<<0, 0>>, <<200, 7>>}}

SampleChunks == {Rep(ChunkLen, 0), [i \in 1..ChunkLen |-> i % 256]}

OutPackets ==
    {[type |-> "ServerIdentification", version |-> 7, name |-> n, motd |-> m,
      operator |-> o] : n \in SampleTexts, m \in SampleTexts, o \in BOOLEAN}
    \cup {[type |-> "Ping"], [type |-> "LevelInit"]}
    \cup {[type |-> "LevelDataChunk", data_length |-> l, data_chunk |-> c,
           percent_complete |-> q] :
             l \in {0, 258, ChunkLen}, c \in SampleChunks, q \in {0, 100}}
    \cup {[type |-> "LevelFinalize", size |-> v] : v \in SampleVec16}
    \cup {[type |-> "SetBlock", position |-> v, block |-> b] :
             v \in SampleVec16, b \in {0, 49, 255}}
    \cup {[type |-> "SpawnPlayer", id |-> i, name |-> n, location |-> l] :
             i \in PlayerIds, n \in SampleTexts, l \in SampleLocations}
    \cup {[type |-> "TeleportPlayer", id |-> i, location |-> l] :
             i \in PlayerIds, l \in SampleLocations}
    \cup {[type |-> "UpdatePlayerLocation", id |-> i, position_change |-> v,
           yaw |-> a[1], pitch |-> a[2]] :
             i \in PlayerIds, v \in SampleVecX8, a \in {<<0, 0>>, <<200, 7>>}}
    \cup {[type |-> "UpdatePlayerPosition", id |-> i, position_change |-> v] :
             i \in PlayerIds, v \in SampleVecX8}
    \cup {[type |-> "UpdatePlayerRotation", id |-> i, yaw |-> a[1], pitch |-> a[2]] :
             i \in PlayerIds, a \in {<<0, 0>>, <<200, 7>>}}
    \cup {[type |-> "DespawnPlayer", id |-> i] : i \in PlayerIds}
    \cup {[type |-> "Message", id |-> i, message |-> m] :
             i \in PlayerIds, m \in SampleTexts}
    \cup {[type |-> "Disconnect", reason |-> m] : m \in SampleTexts}
    \cup {[type |-> "UpdateUser", operator |-> o] : o \in BOOLEAN}

Outgoing_store_step ==
    /\ input.kind = "Outgoing"
    /\ result.op = "none"
    /\ StoreStep("Outgoing::store", Outgoing_store(Writer(stream, wlimit), input.v))

InitOut ==
    /\ RegIdle
    /\ ConnIdle
    /\ ProcIdle
    /\ stream = <<>>
    /\ rpos = 0
    /\ wlimit \in {Unlimited, Limit(0), Limit(2), Limit(FieldLen + 2)}
    /\ input \in {[kind |-> "Outgoing", v |-> pkt] : pkt \in OutPackets}
    /\ result = NoResult

NextOut == Outgoing_store_step

SpecOut == InitOut /\ [][NextOut]_vars

(* Incoming packets: packets are loaded from a stream one after another,  *)
(* until a load fails.                                                     *)

\* b followed by spaces up to the width of a field
Padded(b) == b \o Rep(FieldLen - Len(b), PadByte)

\* "Alice", blank, 64 characters, "a" and a 0xff byte, "Bob" padded with NUL
SampleFields ==
    <<Padded(<<65, 108, 105, 99, 101>>), Padded(<<>>), Rep(FieldLen, 120),
      Padded(<<97, 255>>), <<66, 111, 98>> \o Rep(FieldLen - 3, 0)>>

FramesPlayerIdentification ==
    {<<0, ver>> \o SampleFields[u] \o SampleFields[k] \o <<pad>> :
        ver \in {0, 7}, u \in {1, 3, 5}, k \in {2, 4}, pad \in {0, 66}}

FramesSetBlock ==
    {<<5>> \o pos \o <<mode, id>> :
        pos \in {<<0, 0, 0, 0, 0, 0>>, <<1, 0, 0, 64, 255, 255>>, <<18, 52, 0, 1, 1, 0>>},
        mode \in {0, 1, 2, 255}, id \in {0, 1, 49, 255}}

FramesSetLocation ==
    {<<8, pad>> \o loc :
        pad \in {0, 255},
        loc \in {<<0, 0, 0, 0, 0, 0, 0, 0>>, <<255, 255, 128, 0, 127, 255, 64, 200>>,
                 <<0, 32, 16, 0, 254, 224, 255, 1>>}}

FramesMessage ==
    {<<13, pad>> \o SampleFields[m] : pad \in {0, 255}, m \in 1..4}

FramesUnknown == {<<1>>, <<6>>, <<14>>, <<255>>}

Frames ==
    FramesPlayerIdentification \cup FramesSetBlock \cup FramesSetLocation
        \cup FramesMessage \cup FramesUnknown

\* What follows the first packet on the stream.
Followers ==
    {<<>>, <<255, 13, 0>>, <<0, 7>>, <<5, 0, 1, 0, 2, 0, 3, 2, 49>>,
     <<13, 0>> \o SampleFields[1]}

\* A packet and what follows it, with up to MaxCut bytes missing at the end.
InStreams ==
    {SubSeq(f \o g, 1, Len(f \o g) - cut) :
        f \in Frames, g \in Followers, cut \in 0..MaxCut}

Incoming_load_step ==
    /\ input.kind = "Incoming"
    /\ result.ok
    /\ LoadStep("Incoming::load", Incoming_load(stream, rpos))

InitIn ==
    /\ RegIdle
    /\ ConnIdle
    /\ ProcIdle
    /\ stream \in InStreams
    /\ rpos = 0
    /\ wlimit = Unlimited
    /\ input = [kind |-> "Incoming", v |-> "none"]
    /\ result = NoResult

NextIn == Incoming_load_step

SpecIn == InitIn /\ [][NextIn]_vars

---------------------------------------------------------------------------
(* Claims about text fields (specification SpecText). *)

\* The code points the code page has a byte for.
Representable == {cp437_decode(b) : b \in Byte}

\* t converts: each of its characters has a byte.
Converts(t) == \A i \in 1..Len(t) : t[i] \in Representable

\* The converted form of a text that converts.
Converted(t) == [i \in 1..Len(t) |-> CHOOSE b \in Byte : cp437_decode(b) = t[i]]

\* t without its trailing space characters (U+0020), nothing else removed.
StripSpaces(t) ==
    LET keep == {i \in 1..Len(t) : t[i] # 32} IN
    IF keep = {} THEN <<>> ELSE SubSeq(t, 1, Max(keep))

\* The destination takes a whole field.
TakesField == ~wlimit.on \/ wlimit.n >= FieldLen

\* C7 as stated: a text that converts to at most 64 bytes, stored and loaded
\* back from the 64 bytes written, is the original text without its
\* trailing spaces, no other character dropped or changed.
C7_RoundTripStripsOnlySpaces ==
    (/\ result.op = "String::load"
     /\ result.ok
     /\ Converts(input.v)
     /\ Len(input.v) <= FieldLen)
    => result.val = StripSpaces(input.v)

\* C7, what the code does: the text comes back without its trailing spaces
\* and trailing U+00A0 (byte 0xff), the two White_Space characters of the
\* code page; nothing else is dropped or changed.
C7_RoundTripStripsSpacesAndNbsp ==
    (/\ result.op = "String::load"
     /\ result.ok
     /\ Converts(input.v)
     /\ Len(input.v) <= FieldLen)
    => LET keep == {i \in 1..Len(input.v) : input.v[i] \notin {32, 160}} IN
       result.val = IF keep = {} THEN <<>> ELSE SubSeq(input.v, 1, Max(keep))

\* C8: a store of a text that converts, to a destination that takes the
\* field, succeeds and writes exactly 64 bytes: the first 64 converted
\* bytes when there are more than 64, else the n converted bytes followed
\* by 64 - n bytes 0x20; and every successful store wrote 64 bytes.
C8_StoreTruncatesOrPads ==
    result.op = "String::store" =>
        /\ (result.ok => Len(stream) - result.start = FieldLen)
        /\ (Converts(input.v) /\ TakesField) =>
              LET b == Converted(input.v)
                  n == Len(b)
              IN  /\ result.ok
                  /\ stream = IF n > FieldLen
                              THEN SubSeq(b, 1, FieldLen)
                              ELSE b \o Rep(FieldLen - n, 32)

\* An overlong text was stored, clipped to 64 bytes.
C8_Witness ==
    /\ result.op = "String::store"
    /\ result.ok
    /\ Len(input.v) > FieldLen
    /\ Len(stream) = FieldLen

\* C9: a store of a text with a character the code page has no byte for
\* returns InvalidData and writes nothing.
C9_UnrepresentableWritesNothing ==
    (result.op = "String::store" /\ ~Converts(input.v)) =>
        /\ ~result.ok
        /\ result.err = "InvalidData"
        /\ stream = <<>>

\* A store failed on a character that lies beyond the 64th, after
\* characters that convert.
C9_Witness ==
    /\ result.op = "String::store"
    /\ result.err = "InvalidData"
    /\ Len(input.v) > FieldLen
    /\ \A i \in 1..FieldLen : input.v[i] \in Representable

---------------------------------------------------------------------------
(* Claims about scaled integers (specification SpecFixed). *)

\* The value of a byte string read as a big-endian two's-complement integer.
TwosComplement(bytes) ==
    LET u == IF Len(bytes) = 1 THEN bytes[1] ELSE bytes[1] * 256 + bytes[2]
        half == IF Len(bytes) = 1 THEN 128 ELSE 32768
    IN  IF u >= half THEN u - 2 * half ELSE u

\* C10: every x8 and every x16, stored and loaded back, is the same value,
\* and the stream carries its raw two's-complement bits: one byte for x8,
\* two bytes big-endian for x16.
C10_FixedRoundTrip ==
    /\ (result.op \in {"x8::store", "x16::store"} /\ result.ok) =>
          /\ Len(stream) = (IF input.kind = "x8" THEN 1 ELSE 2)
          /\ TwosComplement(stream) = input.v.bits
    /\ (result.op \in {"x8::load", "x16::load"} /\ result.ok) =>
          /\ result.val = input.v
          /\ rpos = Len(stream)

\* The most negative x16 came back from the stream.
C10_Witness ==
    /\ result.op = "x16::load"
    /\ result.ok
    /\ input.v.bits = -32768
    /\ stream = <<128, 0>>

---------------------------------------------------------------------------
(* Claims about incoming packets (specification SpecIn). *)

\* The byte at offset k (0: the discriminant) of the packet last loaded.
At(k) == stream[result.start + 1 + k]

\* The bytes at offsets k .. k + n - 1 of the packet last loaded.
Bytes(k, n) == SubSeq(stream, result.start + 1 + k, result.start + k + n)

\* The last load found a discriminant byte on the stream.
LoadedDiscriminant ==
    result.op = "Incoming::load" /\ result.start < Len(stream)

KnownDiscriminants == {0, 5, 8, 13}

\* C3: a load whose first byte is not 0x00, 0x05, 0x08 or 0x0d returns
\* InvalidData, yields no packet, and has consumed that one byte only.
C3_UnknownDiscriminant ==
    (LoadedDiscriminant /\ At(0) \notin KnownDiscriminants) =>
        /\ ~result.ok
        /\ result.err = "InvalidData"
        /\ result.val = "none"
        /\ rpos = result.start + 1

\* An unknown discriminant was refused after a packet was decoded, and
\* bytes that follow it are still unread.
C3_Witness ==
    /\ LoadedDiscriminant
    /\ At(0) = 255
    /\ result.err = "InvalidData"
    /\ result.start > 0
    /\ rpos < Len(stream)

\* The text of a 64-byte field.
FieldText(b) == trim_end(borrow_from_cp437(b))

\* The packet the decode table reads from the bytes of the last load: the
\* fields in table order, the padding bytes left out.
TablePacket ==
    CASE At(0) = 0 ->
           [type |-> "PlayerIdentification", version |-> At(1),
            username |-> FieldText(Bytes(2, FieldLen)),
            key |-> FieldText(Bytes(2 + FieldLen, FieldLen))]
      [] At(0) = 5 ->
           [type |-> "SetBlock",
            position |-> [x |-> At(1) * 256 + At(2), y |-> At(3) * 256 + At(4),
                          z |-> At(5) * 256 + At(6)],
            state |-> IF At(7) # 0 THEN At(8) ELSE 0]
      [] At(0) = 8 ->
           [type |-> "SetLocation",
            location |->
              [position |-> [x |-> [bits |-> TwosComplement(Bytes(2, 2))],
                             y |-> [bits |-> TwosComplement(Bytes(4, 2))],
                             z |-> [bits |-> TwosComplement(Bytes(6, 2))]],
               yaw |-> At(8), pitch |-> At(9)]]
      [] At(0) = 13 ->
           [type |-> "Message", message |-> FieldText(Bytes(2, FieldLen))]

\* The bytes a packet takes on the wire, its discriminant counted.
TableSize ==
    CASE At(0) = 0 -> 131
      [] At(0) = 5 -> 9
      [] At(0) = 8 -> 10
      [] At(0) = 13 -> 66

\* C4: a successful load reads the fields in the order of the decode table
\* and consumes exactly the packet's bytes: 131 for 0x00, 9 for 0x05, 10 for
\* 0x08, 66 for 0x0d; the padding bytes do not show in the packet, and the
\* byte after the packet is left unread.
C4_LoadConsumesExactly ==
    (result.op = "Incoming::load" /\ result.ok) =>
        /\ At(0) \in KnownDiscriminants
        /\ rpos = result.start + TableSize
        /\ result.val = TablePacket

\* A PlayerIdentification with a non-zero padding byte was decoded, and the
\* stream goes on after it.
C4_Witness ==
    /\ result.op = "Incoming::load"
    /\ result.ok
    /\ result.val.type = "PlayerIdentification"
    /\ At(130) # 0
    /\ rpos = result.start + 131
    /\ rpos < Len(stream)

\* C5: a decoded SetBlock has state = block-id when the mode byte is not 0
\* (any of 1..255) and state = 0 when it is 0; its position is the three
\* big-endian u16 in the order x, y, z.
C5_SetBlockState ==
    (result.op = "Incoming::load" /\ result.ok /\ At(0) = 5) =>
        /\ result.val.type = "SetBlock"
        /\ result.val.state = (IF At(7) = 0 THEN 0 ELSE At(8))
        /\ result.val.position.x = At(1) * 256 + At(2)
        /\ result.val.position.y = At(3) * 256 + At(4)
        /\ result.val.position.z = At(5) * 256 + At(6)

\* A SetBlock with mode byte 255 placed block 49.
C5_Witness ==
    /\ result.op = "Incoming::load"
    /\ result.ok
    /\ At(0) = 5
    /\ At(7) = 255
    /\ result.val.state = 49
    /\ result.val.position = [x |-> 256, y |-> 64, z |-> 65535]

---------------------------------------------------------------------------
(* Claims about outgoing packets (specification SpecOut). *)

\* The wire table: each variant's discriminant and its fields in order.
WireFormat ==
    [ServerIdentification |->
        [disc |-> 0, fields |-> << <<"u8", "version">>, <<"text", "name">>,
                                  <<"text", "motd">>, <<"flag", "operator">> >>],
     Ping |-> [disc |-> 1, fields |-> <<>>],
     LevelInit |-> [disc |-> 2, fields |-> <<>>],
     LevelDataChunk |->
        [disc |-> 3, fields |-> << <<"u16", "data_length">>, <<"chunk", "data_chunk">>,
                                  <<"u8", "percent_complete">> >>],
     LevelFinalize |-> [disc |-> 4, fields |-> << <<"vec_u16", "size">> >>],
     SetBlock |->
        [disc |-> 6, fields |-> << <<"vec_u16", "position">>, <<"u8", "block">> >>],
     SpawnPlayer |->
        [disc |-> 7, fields |-> << <<"i8", "id">>, <<"text", "name">>,
                                  <<"location", "location">> >>],
     TeleportPlayer |->
        [disc |-> 8, fields |-> << <<"i8", "id">>, <<"location", "location">> >>],
     UpdatePlayerLocation |->
        [disc |-> 9, fields |-> << <<"i8", "id">>, <<"vec_x8", "position_change">>,
                                  <<"u8", "yaw">>, <<"u8", "pitch">> >>],
     UpdatePlayerPosition |->
        [disc |-> 10, fields |-> << <<"i8", "id">>, <<"vec_x8", "position_change">> >>],
     UpdatePlayerRotation |->
        [disc |-> 11, fields |-> << <<"i8", "id">>, <<"u8", "yaw">>, <<"u8", "pitch">> >>],
     DespawnPlayer |-> [disc |-> 12, fields |-> << <<"i8", "id">> >>],
     Message |-> [disc |-> 13, fields |-> << <<"i8", "id">>, <<"text", "message">> >>],
     Disconnect |-> [disc |-> 14, fields |-> << <<"text", "reason">> >>],
     UpdateUser |-> [disc |-> 15, fields |-> << <<"flag", "operator">> >>]]

FieldWidth(kind) ==
    CASE kind \in {"u8", "i8", "flag"} -> 1
      [] kind = "u16" -> 2
      [] kind = "vec_x8" -> 3
      [] kind = "vec_u16" -> 6
      [] kind = "location" -> 8
      [] kind = "text" -> FieldLen
      [] kind = "chunk" -> ChunkLen

\* The width of the first n fields.
RECURSIVE WidthOf(_, _)
WidthOf(fields, n) ==
    IF n = 0 THEN 0 ELSE WidthOf(fields, n - 1) + FieldWidth(fields[n][1])

\* The bytes of a text field: the converted text, clipped or space-padded.
FieldOf(t) ==
    LET b == Converted(t) IN
    [i \in 1..FieldLen |-> IF i <= Len(b) THEN b[i] ELSE 32]

\* b is the wire form of the field value v.
FieldHolds(kind, b, v) ==
    CASE kind = "u8" -> b = <<v>>
      [] kind = "i8" -> b = <<IF v < 0 THEN v + 256 ELSE v>>
      [] kind = "flag" -> b = <<IF v THEN 100 ELSE 0>>
      [] kind = "u16" -> b[1] * 256 + b[2] = v
      [] kind = "text" -> b = FieldOf(v)
      [] kind = "chunk" -> b = v
      [] kind = "vec_x8" ->
           /\ TwosComplement(<<b[1]>>) = v.x.bits
           /\ TwosComplement(<<b[2]>>) = v.y.bits
           /\ TwosComplement(<<b[3]>>) = v.z.bits
      [] kind = "vec_u16" ->
           /\ b[1] * 256 + b[2] = v.x
           /\ b[3] * 256 + b[4] = v.y
           /\ b[5] * 256 + b[6] = v.z
      [] kind = "location" ->
           /\ TwosComplement(SubSeq(b, 1, 2)) = v.position.x.bits
           /\ TwosComplement(SubSeq(b, 3, 4)) = v.position.y.bits
           /\ TwosComplement(SubSeq(b, 5, 6)) = v.position.z.bits
           /\ b[7] = v.yaw
           /\ b[8] = v.pitch

\* The lengths the claim names.
NamedLengths == [Ping |-> 1, LevelDataChunk |-> 1028, SpawnPlayer |-> 74, Disconnect |-> 65]

\* C6: a successful store of any of the 15 variants writes the variant's
\* discriminant (0x00..0x04, 0x06..0x0f) and then its fields in the order of
\* the wire table, so its length depends on the variant alone (Ping 1,
\* LevelDataChunk 1028, SpawnPlayer 74, Disconnect 65); no two variants
\* share a discriminant; the operator flag is 0x64 or 0x00.
C6_StoreFollowsWireTable ==
    (result.op = "Outgoing::store" /\ result.ok) =>
        LET pkt == input.v
            f == WireFormat[pkt.type]
            n == Len(f.fields)
        IN  /\ stream[1] = f.disc
            /\ f.disc \in (0..4) \cup (6..15)
            /\ \A t \in DOMAIN WireFormat : WireFormat[t].disc = stream[1] => t = pkt.type
            /\ Len(stream) = 1 + WidthOf(f.fields, n)
            /\ pkt.type \in DOMAIN NamedLengths => Len(stream) = NamedLengths[pkt.type]
            /\ \A i \in 1..n :
                 FieldHolds(f.fields[i][1],
                            SubSeq(stream, 2 + WidthOf(f.fields, i - 1),
                                   1 + WidthOf(f.fields, i)),
                            pkt[f.fields[i][2]])

\* A ServerIdentification for an operator, its name clipped, was stored
\* in 131 bytes.
C6_Witness ==
    /\ result.op = "Outgoing::store"
    /\ result.ok
    /\ input.v.type = "ServerIdentification"
    /\ input.v.operator
    /\ Len(input.v.name) > FieldLen
    /\ Len(stream) = 131
    /\ stream[131] = 100

---------------------------------------------------------------------------
(* Salt history: salts are issued one after another on a fresh server.     *)

\* Mutant: the new salt is pushed and nothing is evicted.
issue_salt_no_evict(salt) ==
    /\ Len(issued) < MaxIssues
    /\ last_salts' = Append(last_salts, salt)
    /\ issued' = Append(issued, salt)
    /\ last' = [NoOp EXCEPT !.op = "issue_salt"]
    /\ UNCHANGED <<worlds, players_connected, config, calls, conn, proc>>
    /\ UNCHANGED ioVars

\* issue_salt: the salt SaltExt::salt generated is pushed to the back of
\* the history, and the oldest entry is evicted if the history then
\* exceeds kept_salts.
issue_salt(salt) ==
    /\ Len(issued) < MaxIssues
    /\ last_salts' = LET pushed == Append(last_salts, salt) IN
                     IF Len(pushed) > config.kept_salts THEN Tail(pushed) ELSE pushed
    /\ issued' = Append(issued, salt)
    /\ last' = [NoOp EXCEPT !.op = "issue_salt"]
    /\ UNCHANGED <<worlds, players_connected, config, calls, conn, proc>>
    /\ UNCHANGED ioVars

InitSalt ==
    /\ worlds = <<>>
    /\ players_connected = <<>>
    /\ last_salts = <<>>
    /\ \E k \in 0..MaxKept : config = [kept_salts |-> k, default_world |-> "default"]
    /\ calls = <<>>
    /\ last = NoOp
    /\ issued = <<>>
    /\ IoIdle
    /\ ConnIdle
    /\ ProcIdle

NextSalt == \E salt \in Salts : issue_salt(salt)

SpecSalt == InitSalt /\ [][NextSalt]_vars

---------------------------------------------------------------------------
(* Claims about the salt history (specification SpecSalt). *)

\* The last n elements of a sequence.
LastN(q, n) == SubSeq(q, Len(q) - n + 1, Len(q))

\* C11: the salt history never holds more than kept_salts entries; once
\* more than kept_salts salts were issued it holds exactly the kept_salts
\* most recently issued, in issue order; with kept_salts = 0 it stays empty.
C11_HistoryBounded ==
    /\ Len(last_salts) <= config.kept_salts
    /\ Len(issued) > config.kept_salts =>
          last_salts = LastN(issued, config.kept_salts)
    /\ Len(issued) <= config.kept_salts => last_salts = issued
    /\ config.kept_salts = 0 => last_salts = <<>>

\* Four salts were issued with kept_salts = 2, and the two oldest, which
\* differ from the two kept, are gone.
C11_Witness ==
    /\ config.kept_salts = 2
    /\ issued = <<"s1", "s1", "s2", "s1">>
    /\ last_salts = <<"s2", "s1">>

---------------------------------------------------------------------------
(* Startup: the two binaries (src/main.rs and bin/src/main.rs) build an    *)
(* IdleServer from worlds and a config and start it.                       *)

RunOk == [ok |-> TRUE, context |-> "", cause |-> ""]
RunErr(context, cause) == [ok |-> FALSE, context |-> context, cause |-> cause]

\* IdleServer::start: refuses a config with an empty heartbeat_url and
\* kept_salts above 0; otherwise binds the listener, and spawns the
\* heartbeat task if there is a URL to announce to.
start(cfg) ==
    IF cfg.heartbeat_url = "" /\ cfg.kept_salts > 0
    THEN [ok |-> FALSE, cause |-> "heartbeat_url is empty and kept_salts is above 0",
          listening |-> FALSE, heartbeat |-> "none"]
    ELSE [ok |-> TRUE, cause |-> "",
          listening |-> TRUE,
          heartbeat |-> IF cfg.heartbeat_url = "" THEN "none" ELSE "waiting"]

\* Mutant: main reports success whatever inner_main returned.
main_exit_success(res) == "SUCCESS"

\* main: let Err(err) = res else { return ExitCode::SUCCESS; }; ... FAILURE
main_exit(res) == IF res.ok THEN "SUCCESS" ELSE "FAILURE"

\* The steps of inner_main (src/main.rs) before the worlds are loaded,
\* each wrapped in try_with_context!(...; error "...").
ConfigSteps == {"Setting up defaults", "Opening config file",
                "Reading config file", "Deserializing config file"}

\* inner_main of src/main.rs up to the deserialized config: any of the four
\* steps may fail, and the error is passed back with its context.
inner_main_config(outcome) ==
    /\ proc.entry = "src/main.rs"
    /\ proc.pc = "inner_main"
    /\ proc' = IF outcome = "ok"
               THEN [proc EXCEPT !.pc = "load_worlds"]
               ELSE [proc EXCEPT !.pc = "returned",
                                 !.res = RunErr(outcome, "io")]
    /\ UNCHANGED <<regVars, ioVars, issued, conn>>

\* load_worlds: read_dir and each directory entry may fail with an error;
\* past the loop the function ends in todo!(), which panics.
load_worlds(outcome) ==
    /\ proc.pc = "load_worlds"
    /\ proc' = IF outcome = "todo"
               THEN [proc EXCEPT !.pc = "exited", !.exit = "panic"]
               ELSE [proc EXCEPT !.pc = "returned",
                                 !.res = RunErr(outcome, "io")]
    /\ UNCHANGED <<regVars, ioVars, issued, conn>>

\* inner_main: IdleServer { worlds, config }, then server.start().await,
\* with "Startup: {}" as context in src/main.rs and a bare ? in
\* bin/src/main.rs; on success inner_main sleeps for ever.
inner_main_start ==
    /\ \/ proc.entry = "bin/src/main.rs" /\ proc.pc = "inner_main"
       \/ proc.entry = "src/main.rs" /\ proc.pc = "start"
    /\ LET r == start(config) IN
       proc' = IF r.ok
               THEN [proc EXCEPT !.pc = "sleeping", !.started = TRUE,
                                 !.listening = r.listening,
                                 !.heartbeat = r.heartbeat]
               ELSE [proc EXCEPT !.pc = "returned", !.started = TRUE,
                                 !.res = RunErr(IF proc.entry = "src/main.rs"
                                                THEN "Startup" ELSE "",
                                                r.cause)]
    /\ UNCHANGED <<regVars, ioVars, issued, conn>>

\* main: inner_main has returned; the exit code tells whether with an error.
main_return ==
    /\ proc.pc = "returned"
    /\ proc' = [proc EXCEPT !.pc = "exited", !.exit = main_exit(proc.res)]
    /\ UNCHANGED <<regVars, ioVars, issued, conn>>

\* Heartbeat task: an interval has elapsed, the first attempt begins.
heartbeat_interval ==
    /\ proc.heartbeat = "waiting"
    /\ proc.beats < MaxBeats
    /\ proc' = [proc EXCEPT !.heartbeat = "attempting", !.attempt = 0,
                            !.beats = @ + 1]
    /\ UNCHANGED <<regVars, ioVars, issued, conn>>

\* Heartbeat task: an attempt succeeds, or fails and is retried up to
\* heartbeat_retries times before the task gives up until the next interval.
heartbeat_attempt(success) ==
    /\ proc.heartbeat = "attempting"
    /\ proc' = IF ~success /\ proc.attempt < config.heartbeat_retries
               THEN [proc EXCEPT !.attempt = @ + 1]
               ELSE [proc EXCEPT !.heartbeat = "waiting",
                                 !.announced = @ + (IF success THEN 1 ELSE 0)]
    /\ UNCHANGED <<regVars, ioVars, issued, conn>>

StartConfigs ==
    [kept_salts : 0..MaxKept, heartbeat_url : {"", "https://www.classicube.net/server/heartbeat"},
     heartbeat_retries : 0..MaxRetries, default_world : {"default"}]

InitStart ==
    /\ worlds = <<>>
    /\ players_connected = <<>>
    /\ last_salts = <<>>
    /\ config \in StartConfigs
    /\ calls = <<>>
    /\ last = NoOp
    /\ issued = <<>>
    /\ IoIdle
    /\ ConnIdle
    /\ \E entry \in {"src/main.rs", "bin/src/main.rs"} :
         proc = [entry |-> entry, pc |-> "inner_main", started |-> FALSE,
                 listening |-> FALSE, heartbeat |-> "none", attempt |-> 0,
                 beats |-> 0, announced |-> 0, res |-> RunOk, exit |-> "running"]

NextStart ==
    \/ \E outcome \in ConfigSteps \cup {"ok"} : inner_main_config(outcome)
    \/ \E outcome \in {"Failed to open worlds directory",
                       "Failed to read worlds directory", "todo"} :
         load_worlds(outcome)
    \/ inner_main_start
    \/ main_return
    \/ heartbeat_interval
    \/ \E success \in BOOLEAN : heartbeat_attempt(success)

SpecStart == InitStart /\ [][NextStart]_vars

---------------------------------------------------------------------------
(* Claims about startup (specification SpecStart). *)

\* C12: with an empty heartbeat_url and kept_salts > 0 the process never
\* listens, and once the server was started main ends with FAILURE and the
\* startup error; with an empty heartbeat_url and kept_salts = 0 the start
\* is not refused: the server listens and the heartbeat task never runs.
C12_EmptyUrlStartup ==
    /\ (config.heartbeat_url = "" /\ config.kept_salts > 0) =>
          /\ ~proc.listening
          /\ proc.heartbeat = "none" /\ proc.beats = 0
          /\ proc.started =>
                /\ proc.pc \in {"returned", "exited"}
                /\ ~proc.res.ok
                /\ proc.res.cause = "heartbeat_url is empty and kept_salts is above 0"
                /\ proc.pc = "exited" => proc.exit = "FAILURE"
    /\ (config.heartbeat_url = "" /\ config.kept_salts = 0) =>
          /\ proc.heartbeat = "none" /\ proc.beats = 0 /\ proc.announced = 0
          /\ proc.started =>
                proc.res.ok /\ proc.listening /\ proc.pc = "sleeping"

\* The server was started with an empty heartbeat_url and kept_salts > 0,
\* and the process has exited.
C12_Witness ==
    /\ config.heartbeat_url = "" /\ config.kept_salts > 0
    /\ proc.started /\ proc.pc = "exited"
    /\ proc.exit = "FAILURE"

---------------------------------------------------------------------------
(* Connection supervisor: AwaitingIdentification -> Identified ->          *)
(* Disconnected, one task per accepted connection, over the registry.      *)

Conns == 1..MaxConns

Accepted == [state |-> "AwaitingIdentification", username |-> "",
             registered |-> FALSE, cause |-> "none"]

\* A free in-world id of the world, if it has one (Option).
free_id(slots) ==
    LET free == (0..MaxId) \ slots
    IN  IF free = {} THEN <<>>
        ELSE <<CHOOSE id \in free : \A other \in free : id <= other>>

\* PlayerIdentification while AwaitingIdentification: when the checks pass,
\* the username is not connected yet and the default world has a free id,
\* the player is registered and the connection is Identified; on any
\* failure the connection is Disconnected.
identify(c, username, accepted) ==
    /\ conn[c].state = "AwaitingIdentification"
    /\ LET world == config.default_world
           id == free_id(worlds[world])
       IN  IF accepted /\ username \notin DOMAIN players_connected /\ id # <<>>
           THEN /\ players_connected' =
                      [u \in DOMAIN players_connected \cup {username} |->
                          IF u = username THEN <<world, id[1]>>
                          ELSE players_connected[u]]
                /\ worlds' = [worlds EXCEPT ![world] = @ \cup {id[1]}]
                /\ conn' = [conn EXCEPT ![c] =
                              [@ EXCEPT !.state = "Identified",
                                        !.username = username,
                                        !.registered = TRUE]]
           ELSE /\ conn' = [conn EXCEPT ![c] =
                              [@ EXCEPT !.state = "Disconnected",
                                        !.cause = "rejected"]]
                /\ UNCHANGED <<players_connected, worlds>>
    /\ UNCHANGED <<last_salts, config, calls, last, issued, proc>>
    /\ UNCHANGED ioVars

\* The connection ends: Disconnected, and disconnect(username) if the
\* connection had registered its username.
terminate(c, cause) ==
    /\ conn[c].state \in {"AwaitingIdentification", "Identified"}
    /\ conn' = [conn EXCEPT ![c] =
                  [@ EXCEPT !.state = "Disconnected", !.cause = cause]]
    /\ IF conn[c].registered
       THEN disconnect(conn[c].username)
       ELSE UNCHANGED <<regVars, ioVars, issued, proc>>

\* Any I/O error on a read or a write, in any state.
io_error(c) == terminate(c, "io_error")

\* Idle timeout, or a packet the state does not allow.
drop(c, cause) == terminate(c, cause)

InitConn ==
    /\ worlds = [w \in {"default"} |-> {}]
    /\ players_connected = <<>>
    /\ last_salts = <<>>
    /\ config = [kept_salts |-> 0, default_world |-> "default"]
    /\ calls = <<>>
    /\ last = NoOp
    /\ issued = <<>>
    /\ IoIdle
    /\ ProcIdle
    /\ conn = [c \in Conns |-> Accepted]

NextConn ==
    \/ \E c \in Conns, username \in Usernames, accepted \in BOOLEAN :
         identify(c, username, accepted)
    \/ \E c \in Conns : io_error(c)
    \/ \E c \in Conns, cause \in {"idle_timeout", "protocol_violation"} :
         drop(c, cause)

SpecConn == InitConn /\ [][NextConn]_vars

---------------------------------------------------------------------------
(* Claims about the connection supervisor (specification SpecConn). *)

\* This step is an I/O error on connection c.
IoErrorOn(c) ==
    /\ conn[c].state # "Disconnected"
    /\ conn'[c].state = "Disconnected"
    /\ conn'[c].cause = "io_error"

\* C13: in AwaitingIdentification and in Identified an I/O error can
\* happen and moves the connection to Disconnected; no step changes a
\* Disconnected connection; and the I/O error of a connection that had
\* registered its username calls disconnect(username), after which the
\* connected-player index has no entry for that username.
C13_IoErrorDisconnects ==
    /\ [](\A c \in Conns :
            conn[c].state \in {"AwaitingIdentification", "Identified"} =>
               ENABLED io_error(c))
    /\ [][\A c \in Conns :
            conn[c].state = "Disconnected" => conn'[c] = conn[c]]_vars
    /\ [][\A c \in Conns :
            IoErrorOn(c) /\ conn[c].registered =>
               /\ last'.op = "disconnect"
               /\ last'.username = conn[c].username
               /\ conn[c].username \notin DOMAIN players_connected']_vars

\* A connection that registered "Alice" was ended by an I/O error, and
\* the index holds no "Alice" while the other connection is still there.
C13_Witness ==
    /\ conn[1].state = "Disconnected" /\ conn[1].cause = "io_error"
    /\ conn[1].username = "Alice" /\ conn[1].registered
    /\ last.op = "disconnect" /\ last.username = "Alice"
    /\ "Alice" \in DOMAIN last.players_connected
    /\ "Alice" \notin DOMAIN players_connected
    /\ conn[2].state = "Identified"

---------------------------------------------------------------------------
(* Writers of one connection: application logic and the keepalive ping     *)
(* both store Outgoing packets to the connection's stream.  A store is a   *)
(* chain of write_all().await calls, and write_all itself hands the bytes  *)
(* to the socket in as many parts as the socket takes them, so the task    *)
(* can be suspended after any byte.                                        *)

Writers == {"app", "ping"}

\* What each writer sends: the keepalive sends Ping, application logic
\* the packets of the game.
WriterPackets(t) ==
    IF t = "ping" THEN {[type |-> "Ping"]}
    ELSE {[type |-> "SetBlock", position |-> [x |-> 256, y |-> 64, z |-> 1],
           block |-> 49],
          [type |-> "DespawnPlayer", id |-> -1]}

\* The bytes a store of the packet hands to the stream, in order.
stored_bytes(pkt) == Outgoing_store(Writer(<<>>, Unlimited), pkt).out

\* Mutant: the write path is taken whoever holds it.
lock_free_always(holder) == TRUE

\* The per-connection write path is free.
lock_free(holder) == holder = "none"

\* A writer calls store: it waits for the connection's write path.
store_call(t, pkt) ==
    /\ conn.task[t].state = "idle"
    /\ conn.calls < MaxStores
    /\ conn' = [conn EXCEPT !.task[t] = [state |-> "waiting",
                                         pending |-> stored_bytes(pkt),
                                         pkt |-> pkt],
                            !.calls = @ + 1]
    /\ UNCHANGED <<regVars, ioVars, issued, proc>>

\* The waiting writer gets the write path and its store begins.
lock_acquire(t) ==
    /\ conn.task[t].state = "waiting"
    /\ lock_free(conn.lock)
    /\ conn' = [conn EXCEPT !.lock = t,
                            !.task[t].state = "writing",
                            !.started = Append(@, conn.task[t].pkt)]
    /\ UNCHANGED <<regVars, ioVars, issued, proc>>

\* The socket takes the next n bytes of the store; with the last byte the
\* store returns and the write path is released.
write_some(t, n) ==
    /\ conn.task[t].state = "writing"
    /\ n \in 1..Len(conn.task[t].pending)
    /\ stream' = stream \o SubSeq(conn.task[t].pending, 1, n)
    /\ LET rest == SubSeq(conn.task[t].pending, n + 1, Len(conn.task[t].pending))
       IN  conn' = IF rest = <<>>
                   THEN [conn EXCEPT !.lock = "none",
                                     !.task[t].state = "idle",
                                     !.task[t].pending = <<>>]
                   ELSE [conn EXCEPT !.task[t].pending = rest]
    /\ UNCHANGED <<regVars, rpos, wlimit, input, result, issued, proc>>

IdleWriter == [state |-> "idle", pending |-> <<>>, pkt |-> [type |-> "none"]]

InitWrite ==
    /\ RegIdle
    /\ IoIdle
    /\ ProcIdle
    /\ conn = [lock |-> "none", task |-> [t \in Writers |-> IdleWriter],
               started |-> <<>>, calls |-> 0]

NextWrite ==
    \/ \E t \in Writers : \E pkt \in WriterPackets(t) : store_call(t, pkt)
    \/ \E t \in Writers : lock_acquire(t)
    \/ \E t \in Writers : \E n \in 1..Len(conn.task[t].pending) :
         write_some(t, n)

SpecWrite == InitWrite /\ [][NextWrite]_vars

---------------------------------------------------------------------------
(* Claims about the writers of a connection (specification SpecWrite). *)

RECURSIVE Flatten(_)
\* The packets' bytes one whole packet after another.
Flatten(pkts) ==
    IF pkts = <<>> THEN <<>>
    ELSE stored_bytes(Head(pkts)) \o Flatten(Tail(pkts))

\* The bytes the writers still have to hand over for stores that began.
Unwritten ==
    LET W == {t \in Writers : conn.task[t].state = "writing"}
    IN  IF W = {} THEN 0
        ELSE Len(conn.task[CHOOSE t \in W : TRUE].pending)

\* C14: the stream always carries the packets whose stores began one whole
\* packet after another, each packet's discriminant and fields contiguous:
\* it is the concatenation of those packets, short only of the bytes the
\* one store in progress has not written yet.
C14_NoInterleaving ==
    LET whole == Flatten(conn.started)
    IN  /\ Cardinality({t \in Writers : conn.task[t].state = "writing"}) <= 1
        /\ Len(stream) + Unwritten = Len(whole)
        /\ stream = SubSeq(whole, 1, Len(stream))

\* Application logic is in the middle of a SetBlock (discriminant and x
\* written) after a whole Ping, and the keepalive waits with the next Ping.
C14_Witness ==
    /\ conn.task["app"].state = "writing"
    /\ conn.task["ping"].state = "waiting"
    /\ stream = <<1, 6, 1, 0>>
    /\ Len(conn.task["app"].pending) = 5

---------------------------------------------------------------------------
(* Short streams: a value is loaded from a stream that may end anywhere.   *)

u8_load_step ==
    /\ input.kind = "u8"
    /\ result.op = "none"
    /\ LoadStep("u8::load", u8_load(stream, rpos))

\* Every way a stream can end within s, and s whole.
Prefixes(s) == {SubSeq(s, 1, n) : n \in 0..Len(s)}

\* Four fields that between them hold every byte value.
AllByteFields == {[i \in 1..FieldLen |-> FieldLen * k + i - 1] : k \in 0..3}

\* One packet of each kind, and a packet behind another.
ShortFrames ==
    {<<0, 7>> \o SampleFields[1] \o SampleFields[4] \o <<0>>,
     <<5, 18, 52, 0, 1, 1, 0, 1, 49>>,
     <<8, 255, 0, 32, 16, 0, 254, 224, 255, 1>>,
     <<13, 255>> \o SampleFields[3],
     <<5, 0, 0, 0, 0, 0, 0, 0, 0>> \o <<13, 0>> \o SampleFields[1]}

ShortFields ==
    {f \o g : f \in AllByteFields \cup {SampleFields[i] : i \in 1..Len(SampleFields)},
              g \in {<<>>, <<0, 7>>}}

InitShort ==
    /\ RegIdle
    /\ ConnIdle
    /\ ProcIdle
    /\ rpos = 0
    /\ wlimit = Unlimited
    /\ result = NoResult
    /\ \/ /\ input = [kind |-> "Incoming", v |-> "none"]
          /\ stream \in UNION {Prefixes(f) : f \in ShortFrames}
       \/ /\ input = [kind |-> "String", v |-> "none"]
          /\ stream \in UNION {Prefixes(f) : f \in ShortFields}
       \/ /\ input = [kind |-> "u8", v |-> "none"]
          /\ stream \in Prefixes(<<255, 0>>)

NextShort == Incoming_load_step \/ String_load_step \/ u8_load_step

SpecShort == InitShort /\ [][NextShort]_vars

---------------------------------------------------------------------------
(* Claims about short reads (specification SpecShort). *)

\* The bytes the stream held from where the last load began.
Available == Len(stream) - result.start

\* The last load ended in a short-read error and yielded nothing.
ShortRead == ~result.ok /\ result.err = "UnexpectedEof" /\ result.val = "none"

\* C15: a load on a stream that ends before the last byte of the value (a
\* u8, a text field, an Incoming packet with its padding) returns an error
\* and no value; a text load on 64 bytes, whatever they are, succeeds.
C15_ShortReadFails ==
    /\ (result.op = "u8::load" /\ Available < 1) => ShortRead
    /\ (result.op = "String::load" /\ Available < FieldLen) => ShortRead
    /\ (result.op = "String::load" /\ Available >= FieldLen) =>
          result.ok /\ result.val = FieldText(Bytes(0, FieldLen))
    /\ (result.op = "Incoming::load" /\ Available < 1) => ShortRead
    /\ (LoadedDiscriminant /\ At(0) \in KnownDiscriminants
           /\ Available < TableSize) => ShortRead

\* A PlayerIdentification that lacks only its padding byte was refused.
C15_Witness ==
    /\ result.op = "Incoming::load"
    /\ result.start = 0
    /\ Len(stream) > 0
    /\ At(0) = 0
    /\ Len(stream) = TableSize - 1
    /\ ShortRead

---------------------------------------------------------------------------
(* Duration fields of the config file (src/structs.rs, duration_float).    *)
(* An f64 is NaN, an infinity, or a finite value with a sign and a         *)
(* magnitude: zero, below a nanosecond, in range (a number of             *)
(* milliseconds), or beyond what a Duration holds (2^64 seconds and more). *)

NaN == [class |-> "nan", neg |-> FALSE, mag |-> "none", millis |-> 0]
Infinity(neg) == [class |-> "inf", neg |-> neg, mag |-> "none", millis |-> 0]
Finite(neg, mag, millis) ==
    [class |-> "finite", neg |-> neg, mag |-> mag, millis |-> millis]

\* f64::is_finite
is_finite(v) == v.class = "finite"

\* v > 0.0 (false for NaN, for both zeros and for every negative value)
gt_zero(v) ==
    \/ v.class = "inf" /\ ~v.neg
    \/ v.class = "finite" /\ ~v.neg /\ v.mag # "zero"

\* v < 0.0 (false for NaN and for -0.0)
lt_zero(v) ==
    \/ v.class = "inf" /\ v.neg
    \/ v.class = "finite" /\ v.neg /\ v.mag # "zero"

\* Duration::from_secs_f64: panics if the value is negative, not finite or
\* overflows Duration; a value below one nanosecond gives a zero Duration.
from_secs_f64(v) ==
    IF lt_zero(v) \/ v.class # "finite" \/ v.mag = "huge"
    THEN [panicked |-> TRUE, val |-> "none"]
    ELSE [panicked |-> FALSE,
          val |-> [millis |-> IF v.mag = "in range" THEN v.millis ELSE 0]]

DurationError == "duration must be positive, non-zero, and finite"

\* Visit::visit_f64: bool::then_some takes its argument by value, so
\* Duration::from_secs_f64(v) is evaluated before the condition is looked
\* at; ok_or turns None into the error.
visit_f64(v) ==
    LET duration == from_secs_f64(v) IN
    IF duration.panicked
    THEN [panicked |-> TRUE, ok |-> FALSE, err |-> "none", val |-> "none"]
    ELSE IF is_finite(v) /\ gt_zero(v)
         THEN [panicked |-> FALSE, ok |-> TRUE, err |-> "none", val |-> duration.val]
         ELSE [panicked |-> FALSE, ok |-> FALSE, err |-> DurationError, val |-> "none"]

\* duration_float::deserialize of a decimal number
deserialize_step ==
    /\ input.kind = "duration"
    /\ result.op = "none"
    /\ LET r == visit_f64(input.v) IN
       result' = [op |-> "duration_float::deserialize", ok |-> r.ok,
                  err |-> r.err, val |-> r.val, start |-> 0,
                  panicked |-> r.panicked]
    /\ UNCHANGED <<stream, rpos, wlimit, input>>
    /\ UNCHANGED <<regVars, issued, conn, proc>>

\* The fields declared #[serde(with = "duration_float")]
DurationFields ==
    {"packet_timeout", "ping_spacing", "heartbeat_spacing", "heartbeat_timeout"}

\* One millisecond and the durations the code uses as defaults.
SampleMillis == {1, 50, 500, 750, 5000, 10000}

F64Values ==
    {NaN} \cup {Infinity(neg) : neg \in BOOLEAN}
          \cup {Finite(neg, mag, 0) :
                    neg \in BOOLEAN, mag \in {"zero", "sub-nanosecond", "huge"}}
          \cup {Finite(neg, "in range", n) : neg \in BOOLEAN, n \in SampleMillis}

InitDuration ==
    /\ RegIdle
    /\ ConnIdle
    /\ ProcIdle
    /\ stream = <<>>
    /\ rpos = 0
    /\ wlimit = Unlimited
    /\ input \in {[kind |-> "duration", field |-> f, v |-> v] :
                     f \in DurationFields, v \in F64Values}
    /\ result = NoResult

NextDuration == deserialize_step

SpecDuration == InitDuration /\ [][NextDuration]_vars

---------------------------------------------------------------------------
(* Claims about duration fields (specification SpecDuration). *)

Deserialized == result.op = "duration_float::deserialize"

\* C16 (as claimed): deserializing a duration from a decimal number v
\* returns Ok only for a finite, strictly positive v, returns the error
\* "duration must be positive, non-zero, and finite" for every other v,
\* and never panics.
C16_ErrorNeverPanic ==
    Deserialized =>
        /\ ~result.panicked
        /\ result.ok <=> (is_finite(input.v) /\ gt_zero(input.v))
        /\ ~result.ok => result.err = DurationError

\* What the code does instead: it panics for a negative, NaN, infinite or
\* overflowing v; of the rest it accepts the positive values and returns
\* the error for 0.0 and -0.0 only.
C16_PanicsUnlessZeroOrPositive ==
    Deserialized =>
        LET v == input.v
            zero == v.class = "finite" /\ v.mag = "zero"
            fits == v.class = "finite" /\ v.mag # "huge"
        IN  /\ result.panicked <=> ~(zero \/ (fits /\ ~v.neg))
            /\ result.ok <=> (fits /\ ~v.neg /\ ~zero)
            /\ (~result.ok /\ ~result.panicked) <=> zero
            /\ zero => result.err = DurationError

---------------------------------------------------------------------------
(* Claims about failing stores of packets (specification SpecOut). *)

\* The text fields of the packet, by position in the wire table, whose
\* text does not convert.
FailingFields(pkt) ==
    LET f == WireFormat[pkt.type].fields
    IN  {i \in 1..Len(f) : f[i][1] = "text" /\ ~Converts(pkt[f[i][2]])}

\* C17: a store that fails on a text the code page cannot represent has
\* written exactly the discriminant and the fields before the first such
\* text field, in wire order, and nothing of that field or of a later one;
\* and a packet with such a text fails this way whenever the destination
\* takes the bytes before it.
C17_PartialWriteOnTextFailure ==
    /\ (result.op = "Outgoing::store" /\ result.err = "InvalidData") =>
          LET pkt == input.v
              f == WireFormat[pkt.type]
              bad == FailingFields(pkt)
          IN  /\ ~result.ok
              /\ bad # {}
              /\ LET first == CHOOSE i \in bad : \A j \in bad : i <= j
                 IN  /\ Len(stream) = 1 + WidthOf(f.fields, first - 1)
                     /\ stream[1] = f.disc
                     /\ \A i \in 1..(first - 1) :
                          FieldHolds(f.fields[i][1],
                                     SubSeq(stream, 2 + WidthOf(f.fields, i - 1),
                                            1 + WidthOf(f.fields, i)),
                                     pkt[f.fields[i][2]])
    /\ (result.op = "Outgoing::store" /\ wlimit = Unlimited
           /\ FailingFields(input.v) # {}) =>
          ~result.ok /\ result.err = "InvalidData"

\* A ServerIdentification whose motd has a euro sign failed with the
\* discriminant, the version and the name "Alice" on the stream.
C17_Witness ==
    /\ result.op = "Outgoing::store"
    /\ result.err = "InvalidData"
    /\ input.v.type = "ServerIdentification"
    /\ Converts(input.v.name) /\ ~Converts(input.v.motd)
    /\ stream = <<0, 7>> \o Padded(<<65, 108, 105, 99, 101>>)

====
